---- MODULE Spec2Model ----
(***************************************************************************)
(* A model of the toml++ document tree (array homogeneity and flattening), *)
(* of default_formatter, the canonical TOML serializer, and of the value   *)
(* encoders of print_to_stream (integers, times, date-times).              *)
(*                                                                         *)
(* Nodes are records tagged by "type".  A value node carries its payload,  *)
(* an array node its element sequence, a table node its inline flag and    *)
(* its entries in iteration order (keys[i] is the key of elems[i]).        *)
(* A moved-from / value-initialised std::unique_ptr<node> is Null.         *)
(***************************************************************************)
EXTENDS Integers, Sequences, FiniteSets, TLC

VARIABLES
    elems_,                     \* array::elems_ of the array under test
    call,                       \* the last array operation: arguments, result, trace
    flattened,                  \* whether elems_ has been through flatten() already
    original,                   \* the array as it was constructed
    source,                     \* formatter: the bound source node
    flags,                      \* formatter: format flags (indentation policy)
    key_path_,                  \* default_formatter::key_path_
    pending_table_separator_,   \* default_formatter::pending_table_separator_
    indent_,                    \* formatter::indent_
    naked_newline_,             \* formatter::naked_newline_
    stream,                     \* the text written by the print in progress / last print
    outs,                       \* the text of every completed full print, in order
    fm,                         \* the last forces_multiline query and its result
    enc,                        \* the last value encoding: arguments and text written
    frame                       \* a print(table) / print(array) call: the formatter on entry

vars == <<elems_, call, flattened, original, source, flags, key_path_, pending_table_separator_,
          indent_, naked_newline_, stream, outs, fm, enc, frame>>

arrVars == <<elems_, call, flattened, original>>
fmtVars == <<source, flags, key_path_, pending_table_separator_, indent_,
             naked_newline_, stream, outs>>

(***************************************************************************)
(* Bounds of the model.                                                    *)
(***************************************************************************)
MaxArrNodes == 5        \* nodes below the root of the array under test
MaxDocNodes == 4        \* nodes below the root table of a printed document
MaxPrints == 2          \* full prints made with one formatter instance
MaxWidthNodes == 3      \* nodes below the root of a node whose width is estimated
MaxBias == 8            \* largest starting column bias asked of forces_multiline

(***************************************************************************)
(* Nodes.                                                                  *)
(***************************************************************************)
Null == [type |-> "none"]

Integer(v) == [type |-> "integer", val |-> v]

String(s) == [type |-> "string", str |-> s]

Boolean(b) == [type |-> "boolean", bval |-> b]

\* A floating-point value with an integral value n (n.0).
Float(n) == [type |-> "floating_point", num |-> n]

Array(es) == [type |-> "array", elems |-> es]

Table(inl, ks, es) == [type |-> "table", inl |-> inl, keys |-> ks, elems |-> es]

NodeTypes == {"none", "table", "array", "string", "integer", "floating_point",
              "boolean", "date", "time", "date_time"}

as_array(n) == n.type = "array"

\* The sum of a sequence of naturals.
RECURSIVE Sum(_)
Sum(s) == IF s = <<>> THEN 0 ELSE Head(s) + Sum(Tail(s))

\* s with the element at 1-based position p removed (std::vector::erase).
Erase(s, p) == SubSeq(s, 1, p - 1) \o SubSeq(s, p + 1, Len(s))

\* n value-initialised slots (std::vector::resize growth).
Nulls(n) == [k \in 1..n |-> Null]

(***************************************************************************)
(* Bounded sets of trees: every node of exactly n nodes built from the     *)
(* given leaves and nested arrays, and every sequence of such nodes with n *)
(* nodes in total.                                                         *)
(***************************************************************************)
RECURSIVE ArrNodesOfSize(_, _)
RECURSIVE ArrSeqsOfSize(_, _)
ArrNodesOfSize(leaves, n) ==
    IF n = 1 THEN leaves \cup {Array(<<>>)}
    ELSE {Array(s) : s \in ArrSeqsOfSize(leaves, n - 1)}

ArrSeqsOfSize(leaves, m) ==
    IF m = 0 THEN {<<>>}
    ELSE UNION {{<<x>> \o s : x \in ArrNodesOfSize(leaves, k),
                              s \in ArrSeqsOfSize(leaves, m - k)} : k \in 1..m}

ArrLeaves == {Integer(1), String("s")}

\* The arrays under test: the element sequences of m nodes in total.
ArrInputs(m) == ArrSeqsOfSize(ArrLeaves, m)

(***************************************************************************)
(* array.inl                                                               *)
(***************************************************************************)

\* array_is_homogeneous: the result and the first_nonmatch out-parameter.
\* first_nonmatch is written only on the two `return false` paths; on the
\* `return true` path it keeps the caller's value, modelled as "unset".
RECURSIVE FirstNonmatch(_, _, _)
FirstNonmatch(elements, ntype, i) ==
    IF i > Len(elements) THEN 0
    ELSE IF elements[i].type # ntype THEN i
    ELSE FirstNonmatch(elements, ntype, i + 1)

\* (array_is_homogeneous_NoEmptyCheck: the same without the test for an empty
\* array.)
array_is_homogeneous_NoEmptyCheck(elements, ntype0) ==
    LET ntype == IF ntype0 = "none" /\ elements # <<>> THEN elements[1].type ELSE ntype0
        k == FirstNonmatch(elements, ntype, 1)
    IN  IF k # 0 THEN [ret |-> FALSE, first_nonmatch |-> elements[k]]
        ELSE [ret |-> TRUE, first_nonmatch |-> [type |-> "unset"]]

array_is_homogeneous(elements, ntype0) ==
    IF elements = <<>> THEN [ret |-> FALSE, first_nonmatch |-> Null]
    ELSE LET ntype == IF ntype0 = "none" THEN elements[1].type ELSE ntype0
             k == FirstNonmatch(elements, ntype, 1)
         IN  IF k # 0 THEN [ret |-> FALSE, first_nonmatch |-> elements[k]]
             ELSE [ret |-> TRUE, first_nonmatch |-> [type |-> "unset"]]

\* array::is_homogeneous(node_type) const
is_homogeneous(elems, ntype0) ==
    IF elems = <<>> THEN FALSE
    ELSE LET ntype == IF ntype0 = "none" THEN elems[1].type ELSE ntype0
         IN  \A i \in 1..Len(elems) : elems[i].type = ntype

\* array::is_homogeneous(node_type, node*&) and (node_type, const node*&) const
is_homogeneous_nonmatch(elems, ntype) == array_is_homogeneous(elems, ntype)

is_homogeneous_nonmatch_const(elems, ntype) == array_is_homogeneous(elems, ntype)

\* array::total_leaf_count
\* (total_leaf_count_Shallow: the same without the recursion into nested arrays.)
total_leaf_count_Shallow(elems) == Len(elems)

RECURSIVE total_leaf_count(_)
total_leaf_count(elems) ==
    Sum([i \in 1..Len(elems) |->
            IF as_array(elems[i]) THEN total_leaf_count(elems[i].elems) ELSE 1])

\* (Relocate_Forward: the relocation loop run from idx upwards instead of from
\* the top downwards.)
RECURSIVE RelocateUp(_, _, _, _)
RelocateUp(st, left, right, top) ==
    IF left > top THEN st
    ELSE RelocateUp([st EXCEPT !.elems = [@ EXCEPT ![right + 1] = st.elems[left + 1],
                                                   ![left + 1] = Null],
                               !.overwrote = @ \/ st.elems[right + 1] # Null,
                               !.relocations = @ + 1],
                    left + 1, right + 1, top)

Relocate_Forward(st, left, right, idx) == RelocateUp(st, idx, idx + (right - left), left)

\* array::preinsertion_resize: the relocation loop, elems_[right] = move(elems_[left])
\* for left = old_size-1 down to idx (0-based), right = left + count.
RECURSIVE Relocate(_, _, _, _)
Relocate(st, left, right, idx) ==
    IF left < idx THEN st
    ELSE Relocate([st EXCEPT !.elems = [@ EXCEPT ![right + 1] = st.elems[left + 1],
                                                 ![left + 1] = Null],
                             !.overwrote = @ \/ st.elems[right + 1] # Null,
                             !.relocations = @ + 1],
                  left - 1, right - 1, idx)

\* (preinsertion_resize_NoShift: the resize alone, without the relocation loop.)
preinsertion_resize_NoShift(st, idx, count) ==
    [st EXCEPT !.elems = @ \o Nulls(count), !.resizes = @ + 1]

preinsertion_resize(st, idx, count) ==
    LET old_size == Len(st.elems)
        new_size == old_size + count
        inserting_at_end == idx = old_size
        resized == [st EXCEPT !.elems = @ \o Nulls(count), !.resizes = @ + 1]
    IN  IF inserting_at_end THEN resized
        ELSE Relocate(resized, old_size - 1, new_size - 1, idx)

\* The store of flatten_child, elems_[dest_index++] = move(child.elems_[i]).
\* A store past the end of the storage is recorded (oob) and writes nothing;
\* a store over a slot that still owns a node is recorded (overwrote).
Store(st, nde) ==
    IF st.i >= Len(st.elems)
    THEN [st EXCEPT !.oob = TRUE, !.writes = Append(@, st.i), !.i = @ + 1]
    ELSE [st EXCEPT !.elems = [@ EXCEPT ![st.i + 1] = nde],
                    !.overwrote = @ \/ st.elems[st.i + 1] # Null,
                    !.writes = Append(@, st.i),
                    !.i = @ + 1]

\* array::flatten_child, from element k (1-based) of the child on; st.i is dest_index.
\* (flatten_child_OneLevel: the same storing nested arrays instead of descending
\* into them.)
RECURSIVE flatten_child_OneLevel(_, _, _)
flatten_child_OneLevel(st, child, k) ==
    IF k > Len(child) THEN st
    ELSE flatten_child_OneLevel(Store(st, child[k]), child, k + 1)

RECURSIVE flatten_child(_, _, _)
flatten_child(st, child, k) ==
    IF k > Len(child) THEN st
    ELSE IF child[k].type = "array"
         THEN IF child[k].elems # <<>>
              THEN flatten_child(flatten_child(st, child[k].elems, 1), child, k + 1)
              ELSE flatten_child(st, child, k + 1)
         ELSE flatten_child(Store(st, child[k]), child, k + 1)

\* array::flatten, first loop: i runs from size-1 down to 0 (here i is 1-based).
RECURSIVE FlattenScan(_, _)
FlattenScan(st, i) ==
    IF i = 0 THEN st
    ELSE IF ~as_array(st.elems[i]) THEN FlattenScan(st, i - 1)
    ELSE LET leaf_count == total_leaf_count(st.elems[i].elems)
         IN  IF leaf_count > 0
             THEN FlattenScan([st EXCEPT !.requires_flattening = TRUE,
                                         !.size_after_flattening = @ - 1 + leaf_count],
                              i - 1)
             ELSE FlattenScan([st EXCEPT !.size_after_flattening = @ - 1,
                                         !.elems = Erase(@, i),
                                         !.erases = @ + 1],
                              i - 1)

\* array::flatten, second loop: while (i < elems_.size()).
RECURSIVE FlattenLoop(_)
FlattenLoop(st) ==
    IF st.i >= Len(st.elems) THEN st
    ELSE LET slot == st.elems[st.i + 1]
         IN  IF slot = Null THEN [st EXCEPT !.nullderef = TRUE]
             ELSE IF ~as_array(slot) THEN FlattenLoop([st EXCEPT !.i = @ + 1])
             ELSE LET moved == [st EXCEPT !.elems = [@ EXCEPT ![st.i + 1] = Null]]
                      leaf_count == total_leaf_count(slot.elems)
                      sized == IF leaf_count > 1
                               THEN preinsertion_resize(moved, st.i + 1, leaf_count - 1)
                               ELSE moved
                      expanded == flatten_child(sized, slot.elems, 1)
                  IN  FlattenLoop([expanded EXCEPT
                                     !.expansions = Append(@, [at |-> st.i,
                                                               count |-> leaf_count,
                                                               first |-> Len(st.writes) + 1])])

\* array::flatten: the resulting elems_ together with a trace of what the call did.
FlattenStart(elems) ==
    [elems |-> elems, path |-> "run", requires_flattening |-> FALSE,
     size_after_flattening |-> Len(elems), erases |-> 0, resizes |-> 0,
     relocations |-> 0, reserved |-> 0, i |-> 0, writes |-> <<>>,
     expansions |-> <<>>, overwrote |-> FALSE, oob |-> FALSE, nullderef |-> FALSE]

flatten(elems) ==
    IF elems = <<>> THEN [FlattenStart(elems) EXCEPT !.path = "empty"]
    ELSE LET scanned == FlattenScan(FlattenStart(elems), Len(elems))
         IN  IF ~scanned.requires_flattening
             THEN [scanned EXCEPT !.path = "flat"]
             ELSE FlattenLoop([scanned EXCEPT
                                 !.reserved = scanned.size_after_flattening])

(***************************************************************************)
(* The array under test: an array is constructed, then queried and         *)
(* flattened.                                                              *)
(***************************************************************************)
NoCall == [op |-> "none"]

NoFm == [bias |-> 0, ret |-> FALSE, asked |-> FALSE]

NoEnc == [op |-> "none"]

NoFrame == [op |-> "none"]

FmtIdle ==
    /\ source = Null
    /\ flags = [indent_sub_tables |-> TRUE, indent_array_elements |-> TRUE]
    /\ key_path_ = <<>>
    /\ pending_table_separator_ = FALSE
    /\ indent_ = 0
    /\ naked_newline_ = FALSE
    /\ stream = <<>>
    /\ outs = <<>>
    /\ fm = NoFm
    /\ enc = NoEnc
    /\ frame = NoFrame

InitArray ==
    /\ \E m \in 0..MaxArrNodes : elems_ \in ArrInputs(m)
    /\ call = NoCall
    /\ flattened = FALSE
    /\ original = elems_
    /\ FmtIdle

Flatten ==
    /\ \E r \in {flatten(elems_)} :
           /\ elems_' = r.elems
           /\ call' = [op |-> "flatten", before |-> elems_, again |-> flattened,
                        counted |-> IF call.op = "total_leaf_count" THEN call.ret ELSE -1,
                        trace |-> r]
    /\ flattened' = TRUE
    /\ UNCHANGED original
    /\ UNCHANGED <<fmtVars, fm, enc, frame>>

TotalLeafCount ==
    /\ call' = [op |-> "total_leaf_count", before |-> elems_,
                ret |-> total_leaf_count(elems_)]
    /\ UNCHANGED <<elems_, flattened, original, fmtVars, fm, enc, frame>>

IsHomogeneous(ntype) ==
    /\ call' = [op |-> "is_homogeneous", before |-> elems_, ntype |-> ntype,
                ret |-> is_homogeneous(elems_, ntype)]
    /\ UNCHANGED <<elems_, flattened, original, fmtVars, fm, enc, frame>>

IsHomogeneousNonmatch(ntype) ==
    /\ LET r == is_homogeneous_nonmatch(elems_, ntype)
       IN  call' = [op |-> "is_homogeneous_nonmatch", before |-> elems_, ntype |-> ntype,
                    ret |-> r.ret, first_nonmatch |-> r.first_nonmatch]
    /\ UNCHANGED <<elems_, flattened, original, fmtVars, fm, enc, frame>>

IsHomogeneousNonmatchConst(ntype) ==
    /\ LET r == is_homogeneous_nonmatch_const(elems_, ntype)
       IN  call' = [op |-> "is_homogeneous_nonmatch_const", before |-> elems_,
                    ntype |-> ntype, ret |-> r.ret, first_nonmatch |-> r.first_nonmatch]
    /\ UNCHANGED <<elems_, flattened, original, fmtVars, fm, enc, frame>>

\* The tags passed to is_homogeneous: unspecified, the tags of the elements in
\* ArrInputs, and one tag no element has.
QueryTypes == {"none", "array", "string", "integer", "table"}

NextArray ==
    \/ Flatten
    \/ TotalLeafCount
    \/ \E ntype \in QueryTypes : IsHomogeneous(ntype)
    \/ \E ntype \in QueryTypes : IsHomogeneousNonmatch(ntype)
    \/ \E ntype \in QueryTypes : IsHomogeneousNonmatchConst(ntype)

SpecArray == InitArray /\ [][NextArray]_vars

(***************************************************************************)
(* Properties of the array operations (checked under SpecArray).           *)
(***************************************************************************)

\* The non-array leaves of an element sequence, depth-first, left to right.
RECURSIVE Leaves(_)
Leaves(s) ==
    IF s = <<>> THEN <<>>
    ELSE (IF Head(s).type = "array" THEN Leaves(Head(s).elems) ELSE <<Head(s)>>)
         \o Leaves(Tail(s))

HomogeneousOps == {"is_homogeneous", "is_homogeneous_nonmatch",
                   "is_homogeneous_nonmatch_const"}

\* C2: after flatten the array's elements are exactly the depth-first,
\* left-to-right sequence of the non-array leaves it had before (none lost,
\* duplicated or reordered), no array element remains, and empty nested arrays
\* contribute nothing.
C2_FlattenIsLeafSequence ==
    call.op = "flatten" =>
        /\ elems_ = Leaves(call.before)
        /\ \A i \in 1..Len(elems_) : elems_[i].type \notin {"array", "none"}

\* C2 witness: a flatten of an array mixing an empty nested array, a nested array
\* that itself holds a nested array, and at least two different leaves.
C2_Witness ==
    /\ call.op = "flatten"
    /\ \E i, j \in 1..Len(call.before) :
          /\ call.before[i] = Array(<<>>)
          /\ call.before[j].type = "array"
          /\ \E k \in 1..Len(call.before[j].elems) :
                /\ call.before[j].elems[k].type = "array"
                /\ call.before[j].elems[k].elems # <<>>
    /\ Len(elems_) >= 2
    /\ elems_[1] # elems_[2]

\* C3: the total_leaf_count an array reports before it is flattened is the number
\* of elements it holds after flatten.
C3_LeafCountIsFlattenedSize ==
    (call.op = "flatten" /\ call.counted >= 0) => Len(elems_) = call.counted

\* C3 witness: total_leaf_count was called on an array with nested arrays, which
\* was then flattened to a different size.
C3_Witness ==
    /\ call.op = "flatten"
    /\ call.counted >= 2
    /\ Len(call.before) # call.counted
    /\ \E i \in 1..Len(call.before) : call.before[i] = Array(<<>>)

\* C4: flattening an array that has already been flattened leaves its elements
\* unchanged and takes an early return: no erase, resize, relocation or store.
C4_FlattenIdempotent ==
    (call.op = "flatten" /\ call.again) =>
        /\ elems_ = call.before
        /\ call.trace.path \in {"empty", "flat"}
        /\ call.trace.erases = 0
        /\ call.trace.resizes = 0
        /\ call.trace.relocations = 0
        /\ call.trace.writes = <<>>

\* C4 witness: a second flatten of an array that the first flatten changed into a
\* non-empty flat array.
C4_Witness ==
    /\ call.op = "flatten"
    /\ call.again
    /\ original # elems_
    /\ Len(elems_) >= 2

\* C10 as stated: is_homogeneous is false for every empty array and true for
\* every single-element array, whatever tag is passed, in all three overloads.
C10_Original ==
    call.op \in HomogeneousOps =>
        /\ call.before = <<>> => call.ret = FALSE
        /\ Len(call.before) = 1 => call.ret = TRUE

\* C10 amended: is_homogeneous is false for every empty array whatever tag is
\* passed; for a single-element array it is true exactly when the tag passed is
\* "none" or the element's own type; in all three overloads.
C10_SingleElementMatchesTag ==
    call.op \in HomogeneousOps =>
        /\ call.before = <<>> => call.ret = FALSE
        /\ Len(call.before) = 1 =>
              (call.ret <=> call.ntype \in {"none", call.before[1].type})

\* C10 witness: the out-parameter overload asked with a specific, matching tag
\* about a single-element array.
C10_Witness ==
    /\ call.op = "is_homogeneous_nonmatch"
    /\ Len(call.before) = 1
    /\ call.ntype = "integer"
    /\ call.ret = TRUE

(***************************************************************************)
(* The base formatter (impl::formatter): the output sink, indentation and  *)
(* newline bookkeeping.  A formatter in the middle of a print is a record  *)
(*   out      the text written so far, one element per emission            *)
(*   key_path, pending                 default_formatter's members         *)
(*   indent, naked                     formatter::indent_, naked_newline_  *)
(*   indent_sub_tables, indent_array_elements      the format flags        *)
\* The slots written by the expansion e of a flatten call, in order.
WritesOf(trace, e) ==
    SubSeq(trace.writes, e.first,
           IF e.first + e.count - 1 <= Len(trace.writes)
           THEN e.first + e.count - 1 ELSE Len(trace.writes))

\* C15: in flatten's in-place rewrite no store, of the relocation loop or of
\* flatten_child, lands outside the resized storage or on a slot that still
\* holds an element, and the expansion of a nested array found at index i
\* writes the slots i .. i + count - 1, count being its total leaf count, and
\* no other.
C15_StoresHitFreeSlots ==
    call.op = "flatten" =>
        LET trace == call.trace
            n == Len(trace.expansions)
        IN  /\ ~trace.overwrote
            /\ ~trace.oob
            /\ ~trace.nullderef
            /\ \A x \in 1..n :
                   LET e == trace.expansions[x]
                   IN  /\ e.count >= 1
                       /\ WritesOf(trace, e) = [j \in 1..e.count |-> e.at + j - 1]
                       /\ e.first + e.count
                              = IF x < n THEN trace.expansions[x + 1].first
                                ELSE Len(trace.writes) + 1
            /\ n = 0 => trace.writes = <<>>

\* C15 witness: a nested array of several leaves was expanded in front of
\* elements that had to be relocated.
C15_Witness ==
    /\ call.op = "flatten"
    /\ call.trace.relocations >= 2
    /\ \E x \in 1..Len(call.trace.expansions) :
           /\ call.trace.expansions[x].count >= 2
           /\ call.trace.expansions[x].at = 0
    /\ ~call.trace.overwrote

(***************************************************************************)
line_wrap_cols == 120

indent_columns == 4

IndentString == "    "

\* impl::print_to_stream(base::stream(), text)
Emit(f, text) == [f EXCEPT !.out = Append(@, text)]

\* formatter::attach
attach(f) == [f EXCEPT !.out = <<>>, !.indent = 0, !.naked = TRUE]

\* formatter::print_newline
print_newline(f, force) ==
    IF ~f.naked \/ force THEN [Emit(f, "\n") EXCEPT !.naked = TRUE] ELSE f

\* formatter::print_indent
RECURSIVE PrintIndentFrom(_, _)
PrintIndentFrom(f, i) ==
    IF i < f.indent
    THEN PrintIndentFrom([Emit(f, IndentString) EXCEPT !.naked = FALSE], i + 1)
    ELSE f

print_indent(f) == PrintIndentFrom(f, 0)

increase_indent(f) == [f EXCEPT !.indent = @ + 1]

decrease_indent(f) == [f EXCEPT !.indent = @ - 1]

clear_naked_newline(f) == [f EXCEPT !.naked = FALSE]

\* formatter::print_string for a key: the keys of the model are bare keys.
print_string(f, str) == [Emit(f, str) EXCEPT !.naked = FALSE]

\* The text of a scalar value.
ValueText(v) ==
    CASE v.type = "integer" -> ToString(v.val)
      [] v.type = "string" -> "\"" \o v.str \o "\""
      [] v.type = "boolean" -> IF v.bval THEN "true" ELSE "false"
      [] OTHER -> v.type

\* formatter::print_value
print_value(f, v) == [Emit(f, ValueText(v)) EXCEPT !.naked = FALSE]

is_inline(tbl) == tbl.inl

\* array::is_array_of_tables
is_array_of_tables(arr) ==
    /\ is_homogeneous(arr.elems, "table")
    /\ \A i \in 1..Len(arr.elems) : ~is_inline(arr.elems[i])

(***************************************************************************)
(* default_formatter                                                       *)
(***************************************************************************)

\* The number of decimal digits of n >= 1: floor(log10(n)) + 1.
RECURSIVE Digits(_)
Digits(n) == IF n < 10 THEN 1 ELSE 1 + Digits(n \div 10)

\* default_formatter::count_inline_columns.  TableWeight and ArrayWeight are the
\* two accumulation loops, from entry k on with the weight so far.
RECURSIVE count_inline_columns(_)
RECURSIVE TableWeight(_, _, _)
RECURSIVE ArrayWeight(_, _, _)
RECURSIVE ArrayWeight_BreakBeforeAdd(_, _, _)
TableWeight(tbl, k, weight) ==
    IF k > Len(tbl.elems) THEN weight
    ELSE LET w == weight + Len(tbl.keys[k]) + count_inline_columns(tbl.elems[k]) + 2
         IN  IF w >= line_wrap_cols THEN w ELSE TableWeight(tbl, k + 1, w)

\* (ArrayWeight_BreakBeforeAdd: the array loop leaving before the element that
\* crosses the threshold is added.)
ArrayWeight_BreakBeforeAdd(arr, k, weight) ==
    IF k > Len(arr.elems) THEN weight
    ELSE LET w == weight + count_inline_columns(arr.elems[k]) + 2
         IN  IF w >= line_wrap_cols THEN weight
             ELSE ArrayWeight_BreakBeforeAdd(arr, k + 1, w)

ArrayWeight(arr, k, weight) ==
    IF k > Len(arr.elems) THEN weight
    ELSE LET w == weight + count_inline_columns(arr.elems[k]) + 2
         IN  IF w >= line_wrap_cols THEN w ELSE ArrayWeight(arr, k + 1, w)

count_inline_columns(nde) ==
    CASE nde.type = "table" ->
            IF nde.elems = <<>> THEN 2 ELSE TableWeight(nde, 1, 3)
      [] nde.type = "array" ->
            IF nde.elems = <<>> THEN 2 ELSE ArrayWeight(nde, 1, 3)
      [] nde.type = "string" -> Len(nde.str) + 2
      [] nde.type = "integer" ->
            IF nde.val = 0 THEN 1
            ELSE IF nde.val < 0 THEN 1 + Digits(-nde.val)
            ELSE Digits(nde.val)
      [] nde.type = "floating_point" ->
            IF nde.num = 0 THEN 3
            ELSE IF nde.num < 0 THEN 2 + 1 + Digits(-nde.num)
            ELSE 2 + Digits(nde.num)
      [] nde.type = "boolean" -> 5
      [] nde.type \in {"date", "time"} -> 10
      [] nde.type = "date_time" -> 30

\* default_formatter::forces_multiline
forces_multiline(nde, starting_column_bias) ==
    count_inline_columns(nde) + starting_column_bias >= line_wrap_cols

\* default_formatter::print_pending_table_separator
print_pending_table_separator(f) ==
    IF f.pending
    THEN [print_newline(print_newline(f, TRUE), TRUE) EXCEPT !.pending = FALSE]
    ELSE f

\* default_formatter::print_key_segment
print_key_segment(f, str) == print_string(f, str)

\* default_formatter::print_key_path
RECURSIVE PrintKeyPathFrom(_, _)
PrintKeyPathFrom(f, i) ==
    IF i > Len(f.key_path) THEN f
    ELSE PrintKeyPathFrom(print_key_segment(IF i > 1 THEN Emit(f, ".") ELSE f,
                                            f.key_path[i]),
                          i + 1)

print_key_path(f) == clear_naked_newline(PrintKeyPathFrom(f, 1))

\* The lambda is_non_inline_array_of_tables of default_formatter::print(const table&)
\* (is_non_inline_array_of_tables_Negated: the same with the test of the first
\* element's inline flag inverted.)
is_non_inline_array_of_tables_Negated(nde) ==
    /\ as_array(nde)
    /\ is_array_of_tables(nde)
    /\ is_inline(nde.elems[1])

is_non_inline_array_of_tables(nde) ==
    /\ as_array(nde)
    /\ is_array_of_tables(nde)
    /\ ~is_inline(nde.elems[1])

\* default_formatter::print_inline, print(const array&) and print(const table&).
\* InlineEntries and ArrayElems are the loops of the first two; Values,
\* SubTables and TableArrays are the three loops of print(const table&), from
\* entry k on; TableArrayElems is the loop over the elements of one table array.
RECURSIVE print_inline(_, _)
RECURSIVE InlineEntries(_, _, _)
RECURSIVE print_array(_, _)
RECURSIVE ArrayElems(_, _, _, _)
RECURSIVE print_table(_, _)
RECURSIVE Values(_, _, _)
RECURSIVE SubTables(_, _, _)
RECURSIVE TableArrays(_, _, _)
RECURSIVE TableArrayElems(_, _, _)
RECURSIVE TableArrayElems_HeaderOnce(_, _, _)
RECURSIVE ArrayElems_TrailingComma(_, _, _, _)
RECURSIVE SubTables_AlwaysDecrease(_, _, _)
RECURSIVE Values_NoTableArraySkip(_, _, _)

\* The switch on the type of a value that is printed in place.
PrintNode(f, v) ==
    CASE v.type = "table" -> print_inline(f, v)
      [] v.type = "array" -> print_array(f, v)
      [] OTHER -> print_value(f, v)

InlineEntries(f, tbl, k) ==
    IF k > Len(tbl.elems) THEN f
    ELSE LET sep == IF k > 1 THEN Emit(f, ", ") ELSE f
             key == Emit(print_key_segment(sep, tbl.keys[k]), " = ")
         IN  InlineEntries(PrintNode(key, tbl.elems[k]), tbl, k + 1)

print_inline(f, tbl) ==
    clear_naked_newline(
        IF tbl.elems = <<>> THEN Emit(f, "{}")
        ELSE Emit(InlineEntries(Emit(f, "{ "), tbl, 1), " }"))

\* (ArrayElems_TrailingComma: the loop writing the comma after each element
\* instead of before every element but the first.)
ArrayElems_TrailingComma(f, arr, i, multiline) ==
    IF i >= Len(arr.elems) THEN f
    ELSE LET line == IF multiline THEN print_indent(print_newline(f, TRUE)) ELSE f
             elem == PrintNode(line, arr.elems[i + 1])
             comma == IF multiline THEN Emit(elem, ",") ELSE Emit(Emit(elem, ","), " ")
         IN  ArrayElems_TrailingComma(comma, arr, i + 1, multiline)

ArrayElems(f, arr, i, multiline) ==
    IF i >= Len(arr.elems) THEN f
    ELSE LET comma == IF i > 0
                      THEN IF multiline THEN Emit(f, ",") ELSE Emit(Emit(f, ","), " ")
                      ELSE f
             line == IF multiline THEN print_indent(print_newline(comma, TRUE))
                     ELSE comma
         IN  ArrayElems(PrintNode(line, arr.elems[i + 1]), arr, i + 1, multiline)

print_array(f, arr) ==
    clear_naked_newline(
        IF arr.elems = <<>> THEN Emit(f, "[]")
        ELSE LET original_indent == f.indent
                 multiline == forces_multiline(arr,
                                  indent_columns *
                                  (IF original_indent < 0 THEN 0 ELSE original_indent))
                 open == Emit(f, "[")
                 start == IF multiline
                          THEN LET lifted == IF original_indent < 0
                                             THEN [open EXCEPT !.indent = 0]
                                             ELSE open
                               IN  IF lifted.indent_array_elements
                                   THEN increase_indent(lifted)
                                   ELSE lifted
                          ELSE Emit(open, " ")
                 body == ArrayElems(start, arr, 0, multiline)
                 close == IF multiline
                          THEN print_indent(print_newline(
                                   [body EXCEPT !.indent = original_indent], TRUE))
                          ELSE Emit(body, " ")
             IN  Emit(close, "]"))

\* (Values_NoTableArraySkip: the first loop skipping non-inline tables only.)
Values_NoTableArraySkip(f, tbl, k) ==
    IF k > Len(tbl.elems) THEN f
    ELSE LET v == tbl.elems[k]
         IN  IF v.type = "table" /\ ~is_inline(v)
             THEN Values_NoTableArraySkip(f, tbl, k + 1)
             ELSE LET line == print_indent(print_newline([f EXCEPT !.pending = TRUE],
                                                         FALSE))
                      key == Emit(print_key_segment(line, tbl.keys[k]), " = ")
                  IN  Values_NoTableArraySkip(PrintNode(key, v), tbl, k + 1)

\* First loop: values, arrays, and inline tables/table arrays.
Values(f, tbl, k) ==
    IF k > Len(tbl.elems) THEN f
    ELSE LET v == tbl.elems[k]
         IN  IF \/ (v.type = "table" /\ ~is_inline(v))
                \/ (v.type = "array" /\ is_non_inline_array_of_tables(v))
             THEN Values(f, tbl, k + 1)
             ELSE LET line == print_indent(print_newline([f EXCEPT !.pending = TRUE],
                                                         FALSE))
                      key == Emit(print_key_segment(line, tbl.keys[k]), " = ")
                  IN  Values(PrintNode(key, v), tbl, k + 1)

\* The counts taken over the children of a sub-table before its header.
ChildCounts(child_tbl) ==
    LET idx == 1..Len(child_tbl.elems)
        c(i) == child_tbl.elems[i]
    IN  [child_value_count |->
            Cardinality({i \in idx :
                CASE c(i).type = "table" -> is_inline(c(i))
                  [] c(i).type = "array" -> ~is_non_inline_array_of_tables(c(i))
                  [] OTHER -> TRUE}),
         child_table_count |->
            Cardinality({i \in idx : c(i).type = "table" /\ ~is_inline(c(i))}),
         child_table_array_count |->
            Cardinality({i \in idx :
                c(i).type = "array" /\ is_non_inline_array_of_tables(c(i))})]

\* (SkipSelf_NoTableCheck: skip_self without the test for a table child.)
SkipSelf_NoTableCheck(child_tbl) == ChildCounts(child_tbl).child_value_count = 0

SkipSelf(child_tbl) ==
    LET n == ChildCounts(child_tbl)
    IN  /\ n.child_value_count = 0
        /\ (n.child_table_count > 0 \/ n.child_table_array_count > 0)

\* (SubTables_AlwaysDecrease: the second loop decreasing the indent after a
\* sub-table whether or not its header was skipped.)
SubTables_AlwaysDecrease(f, tbl, k) ==
    IF k > Len(tbl.elems) THEN f
    ELSE LET v == tbl.elems[k]
         IN  IF v.type # "table" \/ is_inline(v)
             THEN SubTables_AlwaysDecrease(f, tbl, k + 1)
             ELSE LET skip_self == SkipSelf(v)
                      pushed == [f EXCEPT !.key_path = Append(@, tbl.keys[k])]
                      header ==
                          IF ~skip_self
                          THEN LET sep == print_pending_table_separator(pushed)
                                   ind == IF sep.indent_sub_tables
                                          THEN increase_indent(sep) ELSE sep
                                   hdr == Emit(print_key_path(
                                               Emit(print_indent(ind), "[")), "]")
                               IN  [hdr EXCEPT !.pending = TRUE]
                          ELSE pushed
                      printed == print_table(header, v)
                      popped == [printed EXCEPT
                                    !.key_path = SubSeq(@, 1, Len(@) - 1)]
                      restored == IF popped.indent_sub_tables
                                  THEN decrease_indent(popped) ELSE popped
                  IN  SubTables_AlwaysDecrease(restored, tbl, k + 1)

\* Second loop: non-inline tables.
SubTables(f, tbl, k) ==
    IF k > Len(tbl.elems) THEN f
    ELSE LET v == tbl.elems[k]
         IN  IF v.type # "table" \/ is_inline(v) THEN SubTables(f, tbl, k + 1)
             ELSE LET skip_self == SkipSelf(v)
                      pushed == [f EXCEPT !.key_path = Append(@, tbl.keys[k])]
                      header ==
                          IF ~skip_self
                          THEN LET sep == print_pending_table_separator(pushed)
                                   ind == IF sep.indent_sub_tables
                                          THEN increase_indent(sep) ELSE sep
                                   hdr == Emit(print_key_path(
                                               Emit(print_indent(ind), "[")), "]")
                               IN  [hdr EXCEPT !.pending = TRUE]
                          ELSE pushed
                      printed == print_table(header, v)
                      popped == [printed EXCEPT
                                    !.key_path = SubSeq(@, 1, Len(@) - 1)]
                      restored == IF ~skip_self /\ popped.indent_sub_tables
                                  THEN decrease_indent(popped) ELSE popped
                  IN  SubTables(restored, tbl, k + 1)

\* (TableArrayElems_HeaderOnce: the loop writing the header for the first
\* element only.)
TableArrayElems_HeaderOnce(f, arr, i) ==
    IF i >= Len(arr.elems) THEN f
    ELSE LET sep == print_pending_table_separator(f)
             hdr == IF i = 0
                    THEN Emit(print_key_path(Emit(print_indent(sep), "[[")), "]]")
                    ELSE sep
         IN  TableArrayElems_HeaderOnce(print_table([hdr EXCEPT !.pending = TRUE],
                                                    arr.elems[i + 1]),
                                        arr, i + 1)

TableArrayElems(f, arr, i) ==
    IF i >= Len(arr.elems) THEN f
    ELSE LET sep == print_pending_table_separator(f)
             hdr == Emit(print_key_path(Emit(print_indent(sep), "[[")), "]]")
         IN  TableArrayElems(print_table([hdr EXCEPT !.pending = TRUE],
                                         arr.elems[i + 1]),
                             arr, i + 1)

\* Third loop: table arrays.
TableArrays(f, tbl, k) ==
    IF k > Len(tbl.elems) THEN f
    ELSE LET v == tbl.elems[k]
         IN  IF ~is_non_inline_array_of_tables(v) THEN TableArrays(f, tbl, k + 1)
             ELSE LET ind == IF f.indent_sub_tables THEN increase_indent(f) ELSE f
                      pushed == [ind EXCEPT !.key_path = Append(@, tbl.keys[k])]
                      printed == TableArrayElems(pushed, v, 0)
                      popped == [printed EXCEPT
                                    !.key_path = SubSeq(@, 1, Len(@) - 1)]
                      restored == IF popped.indent_sub_tables
                                  THEN decrease_indent(popped) ELSE popped
                  IN  TableArrays(restored, tbl, k + 1)

\* (print_table_TablesFirst: the sub-table loop run before the values loop.)
print_table_TablesFirst(f, tbl) ==
    TableArrays(Values(SubTables(f, tbl, 1), tbl, 1), tbl, 1)

print_table(f, tbl) == TableArrays(SubTables(Values(f, tbl, 1), tbl, 1), tbl, 1)

\* default_formatter::print()
print(f, src) ==
    CASE src.type = "table" ->
            IF is_inline(src) THEN print_inline(f, src)
            ELSE print_table(decrease_indent(f), src)
      [] src.type = "array" -> print_array(f, src)
      [] OTHER -> print_value(f, src)

\* operator<<(std::ostream&, default_formatter&)
PrintTo(f, src) == print([attach(f) EXCEPT !.key_path = <<>>], src)

(***************************************************************************)
(* Documents to print.  The node with preorder index b, when it is an      *)
(* entry of a table, has the key KeyName(b), so keys are unique within a   *)
(* table.  FmtSeqsOfSize(m, b) is every run of m nodes in total, starting  *)
(* at index b, as the keys and the elements of a container.                *)
(***************************************************************************)
KeyName(b) == "k" \o ToString(b)

\* The string of n characters "x".
RECURSIVE Repeat(_)
Repeat(n) == IF n = 0 THEN "" ELSE "x" \o Repeat(n - 1)

\* A string that alone makes an array as wide as the wrap threshold:
\* "[ " + quotes + 113 + ", " + "]" is 120 columns.
LongString == Repeat(113)

RECURSIVE NodesOfSize(_, _, _)
RECURSIVE SeqsOfSize(_, _, _)
NodesOfSize(leaves, n, b) ==
    IF n = 1
    THEN leaves \cup {Array(<<>>), Table(TRUE, <<>>, <<>>), Table(FALSE, <<>>, <<>>)}
    ELSE LET seqs == SeqsOfSize(leaves, n - 1, b + 1)
         IN  {Array(s.elems) : s \in seqs}
             \cup {Table(inl, s.keys, s.elems) : inl \in BOOLEAN, s \in seqs}

SeqsOfSize(leaves, m, b) ==
    IF m = 0 THEN {[keys |-> <<>>, elems |-> <<>>]}
    ELSE UNION {{[keys |-> <<KeyName(b)>> \o s.keys, elems |-> <<x>> \o s.elems] :
                    x \in NodesOfSize(leaves, k, b),
                    s \in SeqsOfSize(leaves, m - k, b + k)} :
                k \in 1..m}

\* One string of 56 characters: an array of one such string fits a line, an
\* array of two (3 + 60 + 60 columns) does not.
FmtLeaves == {String(Repeat(56))}

\* The documents: a non-inline root table over m nodes.
Docs(m) == {Table(FALSE, s.keys, s.elems) : s \in SeqsOfSize(FmtLeaves, m, 1)}

ArrIdle ==
    /\ elems_ = <<>>
    /\ call = NoCall
    /\ flattened = FALSE
    /\ original = <<>>

\* The formatter after construction (default_formatter's constructor and member
\* initialisers), bound to a document.
InitFormat ==
    /\ \E m \in 0..MaxDocNodes : source \in Docs(m)
    /\ flags \in [indent_sub_tables : BOOLEAN, indent_array_elements : BOOLEAN]
    /\ key_path_ = <<>>
    /\ pending_table_separator_ = FALSE
    /\ indent_ = 0
    /\ naked_newline_ = FALSE
    /\ stream = <<>>
    /\ outs = <<>>
    /\ fm = NoFm
    /\ enc = NoEnc
    /\ frame = NoFrame
    /\ ArrIdle

\* The formatter object as the record the print operators work on.
Formatter ==
    [out |-> stream, key_path |-> key_path_, pending |-> pending_table_separator_,
     indent |-> indent_, naked |-> naked_newline_,
     indent_sub_tables |-> flags.indent_sub_tables,
     indent_array_elements |-> flags.indent_array_elements]

\* A full print: stream << formatter, into an empty stream.
PrintDocument ==
    /\ Len(outs) < MaxPrints
    /\ \E f \in {PrintTo(Formatter, source)} :
           /\ stream' = f.out
           /\ outs' = Append(outs, f.out)
           /\ key_path_' = f.key_path
           /\ pending_table_separator_' = f.pending
           /\ indent_' = f.indent
           /\ naked_newline_' = f.naked
    /\ UNCHANGED <<source, flags, fm, enc, frame, arrVars>>

NextFormat == PrintDocument

SpecFormat == InitFormat /\ [][NextFormat]_vars

(***************************************************************************)
(* The layout decision on its own: forces_multiline asked about a table or *)
(* an array with some starting column bias.                                *)
(***************************************************************************)
WidthLeaves == {Integer(-12), String(Repeat(110)), String(LongString)}

\* The nodes asked about: the tables and arrays over m nodes.
WidthInputs(m) == NodesOfSize(WidthLeaves, m + 1, 0) \ WidthLeaves

InitWidth ==
    /\ \E m \in 0..MaxWidthNodes : source \in WidthInputs(m)
    /\ flags = [indent_sub_tables |-> TRUE, indent_array_elements |-> TRUE]
    /\ key_path_ = <<>>
    /\ pending_table_separator_ = FALSE
    /\ indent_ = 0
    /\ naked_newline_ = FALSE
    /\ stream = <<>>
    /\ outs = <<>>
    /\ fm = NoFm
    /\ enc = NoEnc
    /\ frame = NoFrame
    /\ ArrIdle

ForcesMultiline(bias) ==
    /\ fm' = [bias |-> bias, ret |-> forces_multiline(source, bias), asked |-> TRUE]
    /\ UNCHANGED <<fmtVars, arrVars, enc, frame>>

NextWidth == \E bias \in 0..MaxBias : ForcesMultiline(bias)

SpecWidth == InitWidth /\ [][NextWidth]_vars

\* The inline width of a node summed over all its entries, with no early exit.
RECURSIVE FullWidth(_)
FullWidth(nde) ==
    IF nde.type = "table"
    THEN IF nde.elems = <<>> THEN 2
         ELSE 3 + Sum([k \in 1..Len(nde.elems) |->
                          Len(nde.keys[k]) + FullWidth(nde.elems[k]) + 2])
    ELSE IF nde.type = "array"
         THEN IF nde.elems = <<>> THEN 2
              ELSE 3 + Sum([k \in 1..Len(nde.elems) |-> FullWidth(nde.elems[k]) + 2])
         ELSE count_inline_columns(nde)

\* C9: forces_multiline, which stops summing once the threshold is reached,
\* answers exactly as the full inline width plus the bias compared against 120:
\* true at 120 or more, false at 119 or less.
C9_EarlyExitSameDecision ==
    fm.asked => (fm.ret <=> FullWidth(source) + fm.bias >= 120)

\* C9 witness: a query about a node whose summation stopped early, so that the
\* estimate is below the full width.
C9_Witness ==
    /\ fm.asked
    /\ fm.ret
    /\ count_inline_columns(source) < FullWidth(source)

(***************************************************************************)
(* Properties of the printed text (checked under SpecFormat).  They read   *)
(* the text of the last print, stream, against the document, source.       *)
(***************************************************************************)
Printed == outs # <<>>

\* A dotted key path as it is written: its segments with "." between them.
RECURSIVE PathTokens(_)
PathTokens(path) ==
    IF path = <<>> THEN <<>>
    ELSE IF Len(path) = 1 THEN <<path[1]>>
    ELSE <<path[1], ".">> \o PathTokens(Tail(path))

Header(open, path, close) == <<open>> \o PathTokens(path) \o <<close>>

OccursAt(out, q, s) ==
    /\ q >= 1
    /\ q + Len(s) - 1 <= Len(out)
    /\ SubSeq(out, q, q + Len(s) - 1) = s

Occurrences(out, s) == {q \in 1..Len(out) : OccursAt(out, q, s)}

Positions(out, tok) == {q \in 1..Len(out) : out[q] = tok}

FirstPos(out, tok) == CHOOSE q \in Positions(out, tok) : \A r \in Positions(out, tok) : q <= r

\* The three kinds of entry of a block table, in the words of the layout rules.
IsSubTable(v) == v.type = "table" /\ ~v.inl

IsTableArray(v) ==
    /\ v.type = "array"
    /\ v.elems # <<>>
    /\ \A i \in 1..Len(v.elems) : v.elems[i].type = "table" /\ ~v.elems[i].inl

IsImmediate(v) == ~IsSubTable(v) /\ ~IsTableArray(v)

Rank(v) == IF IsImmediate(v) THEN 1 ELSE IF IsSubTable(v) THEN 2 ELSE 3

\* Every table of a document that is laid out as a block, with its key path: the
\* root, the non-inline sub-tables of a block table and the elements of its
\* arrays of tables.
RECURSIVE BlockTables(_, _)
BlockTables(tbl, path) ==
    {[path |-> path, tbl |-> tbl]} \cup
    UNION {LET v == tbl.elems[k]
               sub == Append(path, tbl.keys[k])
           IN  IF IsSubTable(v) THEN BlockTables(v, sub)
               ELSE IF IsTableArray(v)
                    THEN UNION {BlockTables(v.elems[i], sub) : i \in 1..Len(v.elems)}
                    ELSE {} :
           k \in 1..Len(tbl.elems)}

\* Every key used anywhere below a node.
RECURSIVE KeysOf(_)
KeysOf(nde) ==
    IF nde.type = "table"
    THEN {nde.keys[k] : k \in 1..Len(nde.keys)}
         \cup UNION {KeysOf(nde.elems[k]) : k \in 1..Len(nde.elems)}
    ELSE IF nde.type = "array"
         THEN UNION {KeysOf(nde.elems[k]) : k \in 1..Len(nde.elems)}
         ELSE {}

\* C1 as stated: a second print of the same unchanged tree with the same
\* formatter instance emits exactly the text of the first print.
C1_ReprintIsIdentical == Len(outs) >= 2 => outs[2] = outs[1]

\* C5: an array entry of a block table is printed as [[key]] blocks exactly when
\* it is non-empty and all its elements are non-inline tables; otherwise it is
\* printed as an immediate "key = [ ... ]" entry whose tables are inline.
C5_TableArrayForm ==
    Printed =>
        \A T \in BlockTables(source, <<>>) :
            \A k \in 1..Len(T.tbl.elems) :
                LET v == T.tbl.elems[k]
                    key == T.tbl.keys[k]
                    blocks == Occurrences(stream, Header("[[", Append(T.path, key), "]]"))
                    lines == {q \in Positions(stream, key) :
                                /\ OccursAt(stream, q, <<key, " = ">>)
                                /\ q + 2 <= Len(stream)
                                /\ stream[q + 2] \in {"[", "[]"}}
                IN  v.type = "array" =>
                        IF IsTableArray(v)
                        THEN blocks # {} /\ lines = {}
                        ELSE /\ blocks = {}
                             /\ Cardinality(lines) = 1
                             /\ \A i \in 1..Len(v.elems) :
                                   (v.elems[i].type = "table" /\ v.elems[i].keys # <<>>) =>
                                       \A q \in Positions(stream, v.elems[i].keys[1]) :
                                           q > 1 /\ stream[q - 1] \in {"{ "}

\* C5 witness: a printed document whose root holds an array of a non-inline table
\* followed by an inline table with an entry.
C5_Witness ==
    /\ Printed
    /\ \E k \in 1..Len(source.elems) :
          LET v == source.elems[k]
          IN  /\ v.type = "array"
              /\ Len(v.elems) = 2
              /\ IsSubTable(v.elems[1])
              /\ v.elems[2].type = "table" /\ v.elems[2].inl
              /\ v.elems[2].keys # <<>>

\* The last position before h that does not hold indentation (0 if none).
PrevNonIndent(out, h) ==
    LET before == {q \in 1..(h - 1) : out[q] # IndentString}
    IN  IF before = {} THEN 0 ELSE CHOOSE q \in before : \A r \in before : r <= q

\* C6: in a block table every immediate entry is written as a "key = value" line,
\* in insertion order, before any section of the table; the sections of its
\* non-inline sub-tables come in insertion order before any of its [[key]]
\* blocks; and the first header after at least one immediate entry follows
\* exactly one blank line.
C6_ThreeOrderedPasses ==
    Printed =>
        \A T \in BlockTables(source, <<>>) :
            LET n == Len(T.tbl.elems)
                v(i) == T.tbl.elems[i]
                key(i) == T.tbl.keys[i]
                pos(i) == FirstPos(stream, key(i))
                open(i) == pos(i) - 2 * Len(T.path) - 1
                sections == {i \in 1..n : ~IsImmediate(v(i))}
            IN  /\ \A i \in 1..n : Positions(stream, key(i)) # {}
                /\ \A i, j \in 1..n :
                      (Rank(v(i)) < Rank(v(j)) \/ (Rank(v(i)) = Rank(v(j)) /\ i < j))
                          => pos(i) < pos(j)
                /\ \A i \in 1..n :
                      IF IsImmediate(v(i))
                      THEN OccursAt(stream, pos(i), <<key(i), " = ">>)
                      ELSE \E br \in (IF IsTableArray(v(i)) THEN {"[["} ELSE {"[", "[["}) :
                              OccursAt(stream, open(i),
                                       <<br>> \o PathTokens(Append(T.path, key(i))))
                /\ (sections # {} /\ sections # 1..n) =>
                      LET first == CHOOSE i \in sections : \A j \in sections : pos(i) <= pos(j)
                          q == PrevNonIndent(stream, open(first))
                      IN  /\ q >= 3
                          /\ stream[q] = "\n"
                          /\ stream[q - 1] = "\n"
                          /\ stream[q - 2] # "\n"

\* C6 witness: a printed root table whose entries were inserted as an array of
\* tables, then a sub-table, then a value.
C6_Witness ==
    /\ Printed
    /\ \E i, j, l \in 1..Len(source.elems) :
          /\ i < j /\ j < l
          /\ IsTableArray(source.elems[i])
          /\ IsSubTable(source.elems[j])
          /\ IsImmediate(source.elems[l])

\* The condition under which a sub-table's own header is left out.
HasValueLikeChild(tbl) == \E k \in 1..Len(tbl.elems) : IsImmediate(tbl.elems[k])

HasSectionChild(tbl) == \E k \in 1..Len(tbl.elems) : ~IsImmediate(tbl.elems[k])

\* C7: the [dotted.path] header of a non-inline sub-table is left out exactly when
\* the sub-table has no value-like child and at least one child that is a
\* non-inline table or an array of tables (an empty sub-table keeps its header);
\* every header below it still carries the full dotted path.
C7_HeaderSkippedIffOnlySections ==
    Printed =>
        \A T \in BlockTables(source, <<>>) :
            /\ \A k \in 1..Len(T.tbl.elems) :
                  LET v == T.tbl.elems[k]
                      path == Append(T.path, T.tbl.keys[k])
                  IN  IsSubTable(v) =>
                        /\ (Occurrences(stream, Header("[", path, "]")) = {})
                              <=> (~HasValueLikeChild(v) /\ HasSectionChild(v))
                        /\ \A c \in 1..Len(v.elems) :
                              ~IsImmediate(v.elems[c]) =>
                                 \A q \in Positions(stream, v.keys[c]) :
                                    \E br \in {"[", "[["} :
                                       OccursAt(stream, q - 2 * Len(path) - 1,
                                                <<br>> \o PathTokens(Append(path, v.keys[c])))

\* C7 witness: a printed document with a sub-table that holds only a sub-table,
\* which in turn holds a value.
C7_Witness ==
    /\ Printed
    /\ \E k \in 1..Len(source.elems) :
          LET v == source.elems[k]
          IN  /\ IsSubTable(v)
              /\ Len(v.elems) = 1
              /\ IsSubTable(v.elems[1])
              /\ Len(v.elems[1].elems) = 1
              /\ v.elems[1].elems[1].type = "string"

\* C8: an array of n non-inline tables is printed as exactly n [[path.key]]
\* headers in element order; what follows a header up to the next one belongs to
\* that element only; and every header that is not the first output of the print
\* follows a blank-line separator.
C8_TableArrayBlocks ==
    Printed =>
        \A T \in BlockTables(source, <<>>) :
            \A k \in 1..Len(T.tbl.elems) :
                LET v == T.tbl.elems[k]
                    path == Append(T.path, T.tbl.keys[k])
                    heads == Occurrences(stream, Header("[[", path, "]]"))
                    n == Len(v.elems)
                    \* the position of the i-th header
                    h(i) == CHOOSE q \in heads : Cardinality({r \in heads : r < q}) = i - 1
                    own(i) == KeysOf(v.elems[i])
                IN  IsTableArray(v) =>
                        /\ Cardinality(heads) = n
                        /\ \A i \in 1..n :
                              /\ \A kk \in own(i) :
                                    /\ Positions(stream, kk) # {}
                                    /\ \A q \in Positions(stream, kk) :
                                          /\ h(i) < q
                                          /\ i < n => q < h(i + 1)
                              /\ i < n =>
                                    \A q \in h(i)..h(i + 1) :
                                        stream[q] \in KeysOf(source) =>
                                            stream[q] \in own(i) \cup
                                                {path[x] : x \in 1..Len(path)}
                              /\ LET q == PrevNonIndent(stream, h(i))
                                 IN  q > 0 =>
                                        /\ q >= 2
                                        /\ stream[q] = "\n"
                                        /\ stream[q - 1] = "\n"

\* C8 witness: a printed document with an array of two tables, the first of which
\* has an entry, so that the second header follows that entry's line.
C8_Witness ==
    /\ Printed
    /\ \E k \in 1..Len(source.elems) :
          LET v == source.elems[k]
          IN  /\ IsTableArray(v)
              /\ Len(v.elems) = 2
              /\ v.elems[1].elems # <<>>
              /\ IsImmediate(v.elems[1].elems[1])

(***************************************************************************)
(* The value encoders of print_to_stream_impl.h.  The text an encoder      *)
(* writes is the sequence of its characters.  Each encoder has two builds, *)
(* selected by TOML_INT_CHARCONV: std::to_chars, or a std::ostringstream.  *)
(***************************************************************************)
MaxInt == 20            \* largest magnitude of an encoded integer
MaxMantissa == 12       \* nanosecond fields are m * 10^k for m up to this
MaxOffset == 125        \* largest magnitude of a UTC offset, in minutes

\* sizeof(unsigned_type) * CHAR_BIT for T = int64_t.
UnsignedBits == 64

DigitChars == <<"0", "1", "2", "3", "4", "5", "6", "7", "8", "9",
                "a", "b", "c", "d", "e", "f">>

\* The digits of n >= 0 in the given base, lower case, most significant first.
RECURSIVE Magnitude(_, _)
Magnitude(n, base) ==
    IF n < base THEN <<DigitChars[n + 1]>>
    ELSE Append(Magnitude(n \div base, base), DigitChars[(n % base) + 1])

\* std::to_chars(buf, end, val, base).
to_chars(val, base) ==
    IF val < 0 THEN <<"-">> \o Magnitude(-val, base) ELSE Magnitude(val, base)

\* buf[i] -= 32 for the characters at or above 'a'.
Uppercase(buf) ==
    [i \in 1..Len(buf) |->
        CASE buf[i] = "a" -> "A" [] buf[i] = "b" -> "B" [] buf[i] = "c" -> "C"
          [] buf[i] = "d" -> "D" [] buf[i] = "e" -> "E" [] buf[i] = "f" -> "F"
          [] OTHER -> buf[i]]

\* ss << std::uppercase << std::setbase(base) << static_cast<cast_type>(val):
\* signed decimal in base 10; base 8 and 16 are only set for val >= 0.
StreamInsert(val, base) ==
    IF base = 10 THEN to_chars(val, 10) ELSE Uppercase(Magnitude(val, base))

RECURSIVE Bit(_, _)
Bit(x, i) == IF i = 0 THEN x % 2 ELSE Bit(x \div 2, i - 1)

\* Bit i of static_cast<unsigned_type>(val): two's complement of a negative val.
UnsignedBit(val, i) == IF val >= 0 THEN Bit(val, i) ELSE 1 - Bit(-val - 1, i)

\* The mask loop of the binary branch, from the top bit down.
RECURSIVE BinaryLoop(_, _, _, _)
BinaryLoop(val, i, found_one, out) ==
    IF i >= UnsignedBits THEN out
    ELSE IF UnsignedBit(val, UnsignedBits - 1 - i) = 1
         THEN BinaryLoop(val, i + 1, TRUE, Append(out, "1"))
         ELSE IF found_one THEN BinaryLoop(val, i + 1, TRUE, Append(out, "0"))
         ELSE BinaryLoop(val, i + 1, FALSE, out)

ValueFlags == {"none", "format_as_binary", "format_as_octal", "format_as_hexadecimal"}

\* The base chosen at lines 87-97.
IntegerBase(val, format) ==
    IF format # "none" /\ val >= 0
    THEN CASE format = "format_as_binary" -> 2
           [] format = "format_as_octal" -> 8
           [] format = "format_as_hexadecimal" -> 16
           [] OTHER -> 10
    ELSE 10

print_integer_to_stream(val, format, charconv) ==
    IF val = 0 THEN <<"0">>
    ELSE LET base == IntegerBase(val, format)
         IN  IF charconv
             THEN LET buf == to_chars(val, base)
                  IN  IF base = 16 THEN Uppercase(buf) ELSE buf
             ELSE IF format = "format_as_binary"
                  THEN BinaryLoop(val, 0, FALSE, <<>>)
                  ELSE StreamInsert(val, base)

Zeros(n) == [i \in 1..n |-> "0"]

\* Both builds pad on the left with '0' up to min_digits characters.
print_integer_leftpad_zeros(val, min_digits, charconv) ==
    IF charconv
    THEN LET buf == to_chars(val, 10)
         IN  Zeros(min_digits - Len(buf)) \o buf
    ELSE LET str == to_chars(val, 10)
         IN  Zeros(min_digits - Len(str)) \o str

print_date(val, charconv) ==
    print_integer_leftpad_zeros(val.year, 4, charconv) \o <<"-">>
    \o print_integer_leftpad_zeros(val.month, 2, charconv) \o <<"-">>
    \o print_integer_leftpad_zeros(val.day, 2, charconv)

\* The while loop at lines 348-352; iterations counts its passes.
RECURSIVE StripLoop(_, _, _)
StripLoop(ns, digits, iterations) ==
    IF ns % 10 = 0 THEN StripLoop(ns \div 10, digits - 1, iterations + 1)
    ELSE [ns |-> ns, digits |-> digits, iterations |-> iterations]

\* (print_time_FixedWidth: the same padding the stripped value to 9 digits.)
print_time_FixedWidth(val, charconv) ==
    print_integer_leftpad_zeros(val.hour, 2, charconv) \o <<":">>
    \o print_integer_leftpad_zeros(val.minute, 2, charconv) \o <<":">>
    \o print_integer_leftpad_zeros(val.second, 2, charconv)
    \o IF val.nanosecond # 0 /\ val.nanosecond <= 999999999
       THEN LET s == StripLoop(val.nanosecond, 9, 0)
            IN  <<".">> \o print_integer_leftpad_zeros(s.ns, 9, charconv)
       ELSE <<>>

print_time(val, charconv) ==
    print_integer_leftpad_zeros(val.hour, 2, charconv) \o <<":">>
    \o print_integer_leftpad_zeros(val.minute, 2, charconv) \o <<":">>
    \o print_integer_leftpad_zeros(val.second, 2, charconv)
    \o IF val.nanosecond # 0 /\ val.nanosecond <= 999999999
       THEN LET s == StripLoop(val.nanosecond, 9, 0)
            IN  <<".">> \o print_integer_leftpad_zeros(s.ns, s.digits, charconv)
       ELSE <<>>

\* (print_time_offset_NoHourSplit: the same without taking the hours out of
\* the minute count.)
print_time_offset_NoHourSplit(val, charconv) ==
    IF val.minutes = 0 THEN <<"Z">>
    ELSE LET mins == IF val.minutes < 0 THEN -val.minutes ELSE val.minutes
             hours == mins \div 60
         IN  (IF val.minutes < 0 THEN <<"-">> ELSE <<"+">>)
             \o (IF hours # 0 THEN print_integer_leftpad_zeros(hours, 2, charconv)
                 ELSE <<"0", "0">>)
             \o <<":">>
             \o print_integer_leftpad_zeros(mins, 2, charconv)

print_time_offset(val, charconv) ==
    IF val.minutes = 0 THEN <<"Z">>
    ELSE LET mins == IF val.minutes < 0 THEN -val.minutes ELSE val.minutes
             hours == mins \div 60
         IN  (IF val.minutes < 0 THEN <<"-">> ELSE <<"+">>)
             \o (IF hours # 0 THEN print_integer_leftpad_zeros(hours, 2, charconv)
                 ELSE <<"0", "0">>)
             \o <<":">>
             \o print_integer_leftpad_zeros(IF hours # 0 THEN mins - hours * 60 ELSE mins,
                                            2, charconv)

\* std::optional<time_offset>: empty, or holding a minute count.
NoOffset == [has |-> FALSE]

Offset(m) == [has |-> TRUE, minutes |-> m]

print_date_time(val, charconv) ==
    print_date(val.date, charconv) \o <<"T">> \o print_time(val.time, charconv)
    \o IF val.offset.has THEN print_time_offset(val.offset, charconv) ELSE <<>>

(***************************************************************************)
(* The encoders on their own: one value is encoded into an empty stream.   *)
(***************************************************************************)
RECURSIVE Pow10(_)
Pow10(k) == IF k = 0 THEN 1 ELSE 10 * Pow10(k - 1)

\* Nanosecond fields: zero, every m * 10^k up to a second and just beyond, the
\* largest fraction, and values past the valid range.
NanoInputs ==
    {0, 123456789, 999999999, 1000000000, 2000000000}
    \cup {m * Pow10(k) : m \in 1..MaxMantissa, k \in 0..8}

Time(h, m, s, n) == [hour |-> h, minute |-> m, second |-> s, nanosecond |-> n]

Date(y, m, d) == [year |-> y, month |-> m, day |-> d]

ClockInputs == {<<0, 0, 0>>, <<7, 5, 9>>, <<23, 59, 59>>}

TimeInputs == {Time(c[1], c[2], c[3], n) : c \in ClockInputs, n \in NanoInputs}

OffsetInputs == {NoOffset} \cup {Offset(m) : m \in (0 - MaxOffset)..MaxOffset}

DateTimeInputs ==
    [date : {Date(1979, 5, 27), Date(1, 1, 1)},
     time : {Time(7, 32, 0, 0), Time(0, 32, 0, 999999000)},
     offset : OffsetInputs]

\* The calls: an encoder, its arguments and the build.
IntegerCalls ==
    [op : {"integer"}, val : (0 - MaxInt)..MaxInt, format : ValueFlags,
     charconv : BOOLEAN, done : {FALSE}, text : {<<>>}]

TimeCalls ==
    [op : {"time"}, val : TimeInputs, charconv : BOOLEAN, done : {FALSE}, text : {<<>>}]

DateTimeCalls ==
    [op : {"date_time"}, val : DateTimeInputs, charconv : BOOLEAN, done : {FALSE},
     text : {<<>>}]

InitEncode ==
    /\ ArrIdle
    /\ source = Null
    /\ flags = [indent_sub_tables |-> TRUE, indent_array_elements |-> TRUE]
    /\ key_path_ = <<>>
    /\ pending_table_separator_ = FALSE
    /\ indent_ = 0
    /\ naked_newline_ = FALSE
    /\ stream = <<>>
    /\ outs = <<>>
    /\ fm = NoFm
    /\ enc \in IntegerCalls \cup TimeCalls \cup DateTimeCalls
    /\ frame = NoFrame

PrintInteger ==
    /\ enc.op = "integer" /\ ~enc.done
    /\ enc' = [enc EXCEPT !.done = TRUE,
                          !.text = print_integer_to_stream(enc.val, enc.format,
                                                           enc.charconv)]
    /\ UNCHANGED <<arrVars, fmtVars, fm, frame>>

PrintTime ==
    /\ enc.op = "time" /\ ~enc.done
    /\ enc' = [enc EXCEPT !.done = TRUE, !.text = print_time(enc.val, enc.charconv)]
    /\ UNCHANGED <<arrVars, fmtVars, fm, frame>>

PrintDateTime ==
    /\ enc.op = "date_time" /\ ~enc.done
    /\ enc' = [enc EXCEPT !.done = TRUE,
                          !.text = print_date_time(enc.val, enc.charconv)]
    /\ UNCHANGED <<arrVars, fmtVars, fm, frame>>

NextEncode ==
    \/ PrintInteger
    \/ PrintTime
    \/ PrintDateTime

SpecEncode == InitEncode /\ [][NextEncode]_vars

\* The decimal digits of n >= 0, by place value.
DecimalDigit(n, place) == DigitChars[((n \div Pow10(place)) % 10) + 1]

DecimalWidth(n) == CHOOSE w \in 1..10 : n < Pow10(w) /\ (w = 1 \/ n >= Pow10(w - 1))

Decimal(n) == [i \in 1..DecimalWidth(n) |-> DecimalDigit(n, DecimalWidth(n) - i)]

Pad2(n) == <<DecimalDigit(n, 1), DecimalDigit(n, 0)>>

\* C11: for a negative integer and a binary, octal or hexadecimal hint, the
\* text written is a minus sign followed by the decimal digits of the
\* magnitude, the same as with no hint, in both builds.
C11_NegativeHintIsDecimal ==
    (enc.op = "integer" /\ enc.done /\ enc.val < 0 /\ enc.format # "none")
        => /\ enc.text = <<"-">> \o Decimal(-enc.val)
           /\ enc.text = print_integer_to_stream(enc.val, "none", enc.charconv)

\* The nine-digit zero-padded decimal form of n.
Pad9(n) == [i \in 1..9 |-> DecimalDigit(n, 9 - i)]

\* s without its trailing "0" characters.
StripZeros(s) ==
    LET keep == {i \in 1..Len(s) : s[i] # "0"}
    IN  IF keep = {} THEN <<>>
        ELSE SubSeq(s, 1, CHOOSE i \in keep : \A j \in keep : j <= i)

Fraction(n) ==
    IF n = 0 \/ n > 999999999 THEN <<>> ELSE <<".">> \o StripZeros(Pad9(n))

\* C12: a time is written as HH:MM:SS, each field padded to two digits; then
\* nothing when the nanosecond field is 0 or above 999,999,999, otherwise a
\* "." and the nine-digit padded form of the field without its trailing
\* zeros.  The fraction keeps its leading zeros and never ends in "0", and the
\* stripping loop ends within eight passes.
C12_TimeFraction ==
    (enc.op = "time" /\ enc.done) =>
        LET n == enc.val.nanosecond
        IN  /\ enc.text = Pad2(enc.val.hour) \o <<":">> \o Pad2(enc.val.minute)
                          \o <<":">> \o Pad2(enc.val.second) \o Fraction(n)
            /\ (n # 0 /\ n <= 999999999) =>
                   /\ enc.text[Len(enc.text)] # "0"
                   /\ enc.text[9] = "."
                   /\ \A i \in 10..Len(enc.text) : enc.text[i] = Pad9(n)[i - 9]
                   /\ StripLoop(n, 9, 0).iterations <= 8
            /\ (n = 0 \/ n > 999999999) => Len(enc.text) = 8

\* C12 witness: 120000000 ns was written as ".12".
C12_Witness ==
    /\ enc.op = "time" /\ enc.done
    /\ enc.val.nanosecond = 120000000
    /\ SubSeq(enc.text, 9, Len(enc.text)) = <<".", "1", "2">>

\* The text a date-time carries after its time part.
AfterTime ==
    SubSeq(enc.text,
           Len(print_date(enc.val.date, enc.charconv)) + 1
               + Len(print_time(enc.val.time, enc.charconv)) + 1,
           Len(enc.text))

Abs(m) == IF m < 0 THEN -m ELSE m

\* C13: after the time part a date-time carries nothing when it has no offset,
\* "Z" when the offset is 0 minutes, and otherwise the sign of the minute count
\* m, |m| div 60 padded to two digits, ":" and |m| mod 60 padded to two digits.
C13_OffsetSuffix ==
    (enc.op = "date_time" /\ enc.done) =>
        LET off == enc.val.offset
        IN  /\ SubSeq(enc.text, 1, Len(enc.text) - Len(AfterTime))
                   = print_date(enc.val.date, enc.charconv) \o <<"T">>
                     \o print_time(enc.val.time, enc.charconv)
            /\ AfterTime =
                   IF ~off.has THEN <<>>
                   ELSE IF off.minutes = 0 THEN <<"Z">>
                   ELSE <<IF off.minutes < 0 THEN "-" ELSE "+">>
                        \o Pad2(Abs(off.minutes) \div 60) \o <<":">>
                        \o Pad2(Abs(off.minutes) % 60)

\* C13 witness: an offset of -90 minutes was written as "-01:30".
C13_Witness ==
    /\ enc.op = "date_time" /\ enc.done
    /\ enc.val.offset.has
    /\ enc.val.offset.minutes = -90
    /\ AfterTime = <<"-", "0", "1", ":", "3", "0">>

(***************************************************************************)
(* print(const table&) and print(const array&) on their own: one call on a *)
(* node, entered with the formatter in a state a caller leaves it in (the  *)
(* root is entered at indent -1 with an empty key path, a sub-table or an  *)
(* element of an array of tables with its keys pushed).                    *)
(***************************************************************************)
MaxFrameNodes == 3      \* nodes below the table or array that is printed

\* A short value and one that fills half a line.
FrameLeaves == {Integer(1), String(Repeat(56))}

FrameInputs(m) ==
    {n \in NodesOfSize(FrameLeaves, m + 1, 0) :
        n.type = "array" \/ (n.type = "table" /\ ~n.inl)}

EntryIndents == {-1, 0, 1}

EntryPaths == {<<>>, <<"p">>}

InitFrame ==
    /\ \E m \in 0..MaxFrameNodes : source \in FrameInputs(m)
    /\ flags \in [indent_sub_tables : BOOLEAN, indent_array_elements : BOOLEAN]
    /\ key_path_ \in EntryPaths
    /\ pending_table_separator_ \in BOOLEAN
    /\ indent_ \in EntryIndents
    /\ naked_newline_ = FALSE
    /\ stream = <<>>
    /\ outs = <<>>
    /\ fm = NoFm
    /\ enc = NoEnc
    /\ frame = NoFrame
    /\ ArrIdle

\* print(const table&)
PrintTable ==
    /\ frame.op = "none"
    /\ source.type = "table"
    /\ \E f \in {print_table(Formatter, source)} :
           /\ stream' = f.out
           /\ key_path_' = f.key_path
           /\ pending_table_separator_' = f.pending
           /\ indent_' = f.indent
           /\ naked_newline_' = f.naked
    /\ frame' = [op |-> "print_table", entry |-> Formatter]
    /\ UNCHANGED <<source, flags, outs, fm, enc, arrVars>>

\* print(const array&)
PrintArray ==
    /\ frame.op = "none"
    /\ source.type = "array"
    /\ \E f \in {print_array(Formatter, source)} :
           /\ stream' = f.out
           /\ key_path_' = f.key_path
           /\ pending_table_separator_' = f.pending
           /\ indent_' = f.indent
           /\ naked_newline_' = f.naked
    /\ frame' = [op |-> "print_array", entry |-> Formatter]
    /\ UNCHANGED <<source, flags, outs, fm, enc, arrVars>>

NextFrame ==
    \/ PrintTable
    \/ PrintArray

SpecFrame == InitFrame /\ [][NextFrame]_vars

\* The text of one element, printed on its own at the given indent level.
ElemText(e, level) == PrintNode([frame.entry EXCEPT !.indent = level], e).out

RECURSIVE Join(_, _)
Join(texts, sep) ==
    IF texts = <<>> THEN <<>>
    ELSE IF Len(texts) = 1 THEN texts[1]
    ELSE texts[1] \o sep \o Join(Tail(texts), sep)

Indentation(level) == [i \in 1..level |-> IndentString]

\* Whether the array printed is laid out on several lines.
LaidOutMultiline ==
    forces_multiline(source,
                     indent_columns * (IF frame.entry.indent < 0 THEN 0
                                       ELSE frame.entry.indent))

\* The indent level of the elements of a multi-line array.
ElementLevel ==
    (IF frame.entry.indent < 0 THEN 0 ELSE frame.entry.indent)
    + (IF flags.indent_array_elements THEN 1 ELSE 0)

C16_FrameRestored ==
    frame.op # "none" =>
        /\ key_path_ = frame.entry.key_path
        /\ indent_ = frame.entry.indent

\* C16 witness: a table was printed that holds a sub-table whose header was
\* skipped, with sub-tables indented, and the header below it was written.
C16_Witness ==
    /\ frame.op = "print_table"
    /\ flags.indent_sub_tables
    /\ \E k \in 1..Len(source.elems) :
           LET v == source.elems[k]
           IN  /\ IsSubTable(v)
               /\ SkipSelf(v)
               /\ IsSubTable(v.elems[1])
               /\ Occurrences(stream,
                              Header("[", frame.entry.key_path
                                          \o <<source.keys[k], v.keys[1]>>, "]")) # {}
    /\ key_path_ = frame.entry.key_path
    /\ indent_ = frame.entry.indent

\* The pass conditions of print(const table&), as its three loops test them.
InValuesPass(v) ==
    ~(\/ (v.type = "table" /\ ~is_inline(v))
      \/ (v.type = "array" /\ is_non_inline_array_of_tables(v)))

InTablesPass(v) == ~(v.type # "table" \/ is_inline(v))

InTableArraysPass(v) == is_non_inline_array_of_tables(v)

PassesTaking(v) ==
    (IF InValuesPass(v) THEN 1 ELSE 0) + (IF InTablesPass(v) THEN 1 ELSE 0)
    + (IF InTableArraysPass(v) THEN 1 ELSE 0)

\* C17: every entry of a block table is taken by exactly one of the three
\* passes and written by that pass alone: an immediate entry as one
\* "key = value" line and no header; a sub-table as one "[path.key]" header
\* (none when the header is skipped, the key then standing in the headers
\* below it) and no key line; an array of tables as one "[[path.key]]" header
\* per element and nothing else.  No entry is left out or written by two passes.
C17_PassesPartitionEntries ==
    Printed =>
        \A T \in BlockTables(source, <<>>) :
            \A k \in 1..Len(T.tbl.elems) :
                LET v == T.tbl.elems[k]
                    key == T.tbl.keys[k]
                    path == Append(T.path, key)
                    lines == Cardinality(Occurrences(stream, <<key, " = ">>))
                    headers == Cardinality(Occurrences(stream, Header("[", path, "]")))
                    blocks == Cardinality(Occurrences(stream, Header("[[", path, "]]")))
                IN  /\ PassesTaking(v) = 1
                    /\ Positions(stream, key) # {}
                    /\ InValuesPass(v) => (lines = 1 /\ headers = 0 /\ blocks = 0)
                    /\ InTablesPass(v) =>
                           /\ lines = 0 /\ blocks = 0
                           /\ headers = IF SkipSelf(v) THEN 0 ELSE 1
                    /\ InTableArraysPass(v) =>
                           (lines = 0 /\ headers = 0 /\ blocks = Len(v.elems))

\* C17 witness: a table with an entry for each pass was printed, each written
\* once.
C17_Witness ==
    /\ Printed
    /\ Len(source.elems) = 3
    /\ InTableArraysPass(source.elems[1])
    /\ InTablesPass(source.elems[2])
    /\ InValuesPass(source.elems[3])
    /\ Cardinality(Occurrences(stream, <<source.keys[3], " = ">>)) = 1
    /\ Cardinality(Occurrences(stream, Header("[", <<source.keys[2]>>, "]"))) = 1
    /\ Cardinality(Occurrences(stream, Header("[[", <<source.keys[1]>>, "]]"))) = 1

====
